---------------------------- MODULE Spec2Model ----------------------------
(***************************************************************************)
(* A model of sched (src/main.rs): a command-line tool that resolves a GO  *)
(* Transit line alias to the line's PDF timetable, downloads the PDF into  *)
(* a temporary file and opens it in the platform's viewer.                 *)
(*                                                                         *)
(* A Rust string is modelled as the sequence of its Unicode code points    *)
(* (97 is "a", 65 is "A", 201 is U+00C9, 8490 is U+212A KELVIN SIGN), so   *)
(* that case conversion is computed on the characters as the code does.    *)
(***************************************************************************)
EXTENDS Integers, Sequences, FiniteSets, TLC

VARIABLES
    pc,            \* the position of main
    argv,          \* args[1..]: the command-line arguments after the program name
    raw_name,      \* main line 149: args[1..].join(" ")
    name,          \* main line 150: the normalized name
    index_status,  \* HTTP status of the index page response (0: none yet)
    document,      \* the parsed index page: [table, rows]
    tr,            \* find_pdf_link: the index of the row the loop is at
    href,          \* the href find_pdf_link returned
    url,           \* main line 153: the joined URL
    temp_file,     \* TRUE while main owns a TempFile
    dir_exists,    \* filesystem: <temp dir>/sched exists
    file,          \* filesystem: <temp dir>/sched/sched.pdf, [exists, bytes]
    pdf_status,    \* HTTP status of the PDF response (0: none yet)
    body,          \* the body the PDF response carries
    content,       \* download_pdf line 136: the bytes read from the response
    err,           \* the error main returns ("" for none)
    err_name,      \* the name a ScheduleNotFoundError carries
    exit_code,     \* the process's exit status (-1 while running)
    mkdir_failed,  \* history: create_dir_all failed in TempFile::get
    remove_failed, \* history: remove_file failed in drop on an existing file
    log            \* history: the externally visible events, in order

vars == <<pc, argv, raw_name, name, index_status, document, tr, href, url,
          temp_file, dir_exists, file, pdf_status, body, content, err,
          err_name, exit_code, mkdir_failed, remove_failed, log>>

(***************************************************************************)
(* Bounds of the model.                                                    *)
(***************************************************************************)
MaxUpper == 2   \* input variants: at most this many letters of an alias in upper case
MaxLen == 2     \* input strings over Alphabet: at most this long
MaxRows == 2    \* index pages: at most this many table rows

(***************************************************************************)
(* Strings.                                                                *)
(***************************************************************************)

\* u8::to_ascii_lowercase: only A-Z (65..90) change, by setting bit 0x20.
char_to_ascii_lowercase(c) == IF c >= 65 /\ c <= 90 THEN c + 32 ELSE c

\* str::to_ascii_lowercase (lines 55, 119, 120): every other code point,
\* all non-ASCII ones included, is copied as it is.
to_ascii_lowercase(s) == [i \in 1..Len(s) |-> char_to_ascii_lowercase(s[i])]

\* lines 56-97: the match on lower_name.
match_lower_name(lower_name) ==
    CASE lower_name = <<108, 97, 107, 101, 115, 104, 111, 114, 101, 32, 119, 101, 115, 116>> -> <<48, 49, 45, 49, 56>>   \* 58: "lakeshore west" => "01-18"
      [] lower_name = <<109, 105, 108, 116, 111, 110>> -> <<50, 49>>   \* 59: "milton" => "21"
      [] lower_name = <<107, 105, 116, 99, 104, 101, 110, 101, 114>> -> <<51, 48, 45, 51, 49, 45, 51, 51>>   \* 60: "kitchener" => "30-31-33"
      [] lower_name = <<98, 97, 114, 114, 105, 101>> -> <<54, 51, 45, 54, 53, 45, 54, 56>>   \* 61: "barrie" => "63-65-68"
      [] lower_name = <<114, 105, 99, 104, 109, 111, 110, 100, 32, 104, 105, 108, 108>> -> <<54, 49>>   \* 62: "richmond hill" => "61"
      [] lower_name = <<115, 116, 111, 117, 102, 102, 118, 105, 108, 108, 101>> -> <<55, 48, 45, 55, 49>>   \* 63: "stouffville" => "70-71"
      [] lower_name = <<108, 97, 107, 101, 115, 104, 111, 114, 101, 32, 101, 97, 115, 116>> -> <<48, 57, 45, 57, 48>>   \* 64: "lakeshore east" => "09-90"
      [] lower_name = <<108, 119>> -> <<48, 49, 45, 49, 56>>   \* 66: "lw" => "01-18"
      [] lower_name = <<109, 105>> -> <<50, 49>>   \* 67: "mi" => "21"
      [] lower_name = <<107, 105>> -> <<51, 48, 45, 51, 49, 45, 51, 51>>   \* 68: "ki" => "30-31-33"
      [] lower_name = <<98, 97>> -> <<54, 51, 45, 54, 53, 45, 54, 56>>   \* 69: "ba" => "63-65-68"
      [] lower_name = <<114, 104>> -> <<54, 49>>   \* 70: "rh" => "61"
      [] lower_name = <<115, 116>> -> <<55, 48, 45, 55, 49>>   \* 71: "st" => "70-71"
      [] lower_name = <<108, 101>> -> <<48, 57, 45, 57, 48>>   \* 72: "le" => "09-90"
      [] lower_name = <<49>> -> <<48, 49, 45, 49, 56>>   \* 74: "1" => "01-18"
      [] lower_name = <<48, 49>> -> <<48, 49, 45, 49, 56>>   \* 75: "01" => "01-18"
      [] lower_name = <<49, 56>> -> <<48, 49, 45, 49, 56>>   \* 76: "18" => "01-18"
      [] lower_name = <<51, 48>> -> <<51, 48, 45, 51, 49, 45, 51, 51>>   \* 77: "30" => "30-31-33"
      [] lower_name = <<51, 49>> -> <<51, 48, 45, 51, 49, 45, 51, 51>>   \* 78: "31" => "30-31-33"
      [] lower_name = <<51, 51>> -> <<51, 48, 45, 51, 49, 45, 51, 51>>   \* 79: "33" => "30-31-33"
      [] lower_name = <<54, 51>> -> <<54, 51, 45, 54, 53, 45, 54, 56>>   \* 80: "63" => "63-65-68"
      [] lower_name = <<54, 53>> -> <<54, 51, 45, 54, 53, 45, 54, 56>>   \* 81: "65" => "63-65-68"
      [] lower_name = <<54, 56>> -> <<54, 51, 45, 54, 53, 45, 54, 56>>   \* 82: "68" => "63-65-68"
      [] lower_name = <<55, 48>> -> <<55, 48, 45, 55, 49>>   \* 83: "70" => "70-71"
      [] lower_name = <<55, 49>> -> <<55, 48, 45, 55, 49>>   \* 84: "71" => "70-71"
      [] lower_name = <<57>> -> <<48, 57, 45, 57, 48>>   \* 85: "9" => "09-90"
      [] lower_name = <<48, 57>> -> <<48, 57, 45, 57, 48>>   \* 86: "09" => "09-90"
      [] lower_name = <<57, 48>> -> <<48, 57, 45, 57, 48>>   \* 87: "90" => "09-90"
      [] lower_name = <<52, 49>> -> <<52, 49, 45, 52, 53, 45, 52, 55, 45, 52, 56>>   \* 88: "41" => "41-45-47-48"
      [] lower_name = <<52, 53>> -> <<52, 49, 45, 52, 53, 45, 52, 55, 45, 52, 56>>   \* 89: "45" => "41-45-47-48"
      [] lower_name = <<52, 55>> -> <<52, 49, 45, 52, 53, 45, 52, 55, 45, 52, 56>>   \* 90: "47" => "41-45-47-48"
      [] lower_name = <<52, 56>> -> <<52, 49, 45, 52, 53, 45, 52, 55, 45, 52, 56>>   \* 91: "48" => "41-45-47-48"
      [] lower_name = <<53, 50>> -> <<53, 50, 45, 53, 52, 45, 53, 54>>   \* 92: "52" => "52-54-56"
      [] lower_name = <<53, 52>> -> <<53, 50, 45, 53, 52, 45, 53, 54>>   \* 93: "54" => "52-54-56"
      [] lower_name = <<53, 54>> -> <<53, 50, 45, 53, 52, 45, 53, 54>>   \* 94: "56" => "52-54-56"
      [] OTHER -> lower_name   \* 96: other => other

\* A mutant of get_normalized_name: the table is consulted with the name as
\* typed, the lowercasing of line 55 forgotten.
get_normalized_name_no_fold(name_arg) == match_lower_name(name_arg)

\* A mutant of get_normalized_name: the arm for "ki" yields the route
\* number "30", itself an alias, instead of the combined code.
get_normalized_name_ki_30(name_arg) ==
    LET lower_name == to_ascii_lowercase(name_arg)
    IN  IF lower_name = <<107, 105>> THEN <<51, 48>> ELSE match_lower_name(lower_name)

\* lines 54-98.
get_normalized_name(name_arg) ==
    LET lower_name == to_ascii_lowercase(name_arg)
    IN  match_lower_name(lower_name)

\* line 149: args[1..].join(" ")
RECURSIVE join_args(_)
join_args(a) ==
    IF Len(a) = 0 THEN <<>>
    ELSE IF Len(a) = 1 THEN a[1]
    ELSE a[1] \o <<32>> \o join_args(Tail(a))

(***************************************************************************)
(* The inputs the model draws from.                                        *)
(***************************************************************************)

\* s with the ASCII lower-case letters at the positions in S in upper case.
UpperAt(s, S) ==
    [i \in 1..Len(s) |-> IF i \in S /\ s[i] >= 97 /\ s[i] <= 122 THEN s[i] - 32 ELSE s[i]]

\* The aliases the match of lines 58-94 lists, and the codes it yields.
CodeAliases ==
    { <<108, 97, 107, 101, 115, 104, 111, 114, 101, 32, 119, 101, 115, 116>>,
      <<109, 105, 108, 116, 111, 110>>, <<107, 105, 116, 99, 104, 101, 110, 101, 114>>,
      <<98, 97, 114, 114, 105, 101>>,
      <<114, 105, 99, 104, 109, 111, 110, 100, 32, 104, 105, 108, 108>>,
      <<115, 116, 111, 117, 102, 102, 118, 105, 108, 108, 101>>,
      <<108, 97, 107, 101, 115, 104, 111, 114, 101, 32, 101, 97, 115, 116>>,
      <<108, 119>>, <<109, 105>>, <<107, 105>>, <<98, 97>>, <<114, 104>>, <<115, 116>>,
      <<108, 101>>, <<49>>, <<48, 49>>, <<49, 56>>, <<51, 48>>, <<51, 49>>, <<51, 51>>,
      <<54, 51>>, <<54, 53>>, <<54, 56>>, <<55, 48>>, <<55, 49>>, <<57>>, <<48, 57>>,
      <<57, 48>>, <<52, 49>>, <<52, 53>>, <<52, 55>>, <<52, 56>>, <<53, 50>>, <<53, 52>>,
      <<53, 54>> }

CodeCodes == { match_lower_name(a) : a \in CodeAliases }

\* Every alias with at most MaxUpper of its letters, or all of them, in upper case.
AliasVariants ==
    UNION { { UpperAt(a, S) : S \in { T \in SUBSET (1..Len(a)) : Cardinality(T) <= MaxUpper } }
            \cup { UpperAt(a, 1..Len(a)) } : a \in CodeAliases }

\* m M i I k K 1 2, U+00C9 and U+00E9 (E acute, upper and lower), U+212A (Kelvin sign)
Alphabet == { 109, 77, 105, 73, 107, 75, 49, 50, 201, 233, 8490 }

ShortStrings == UNION { [1..n -> Alphabet] : n \in 0..MaxLen }

\* "nonexistent", "Union", "Pearson"
OtherStrings ==
    { <<110, 111, 110, 101, 120, 105, 115, 116, 101, 110, 116>>,
      <<85, 110, 105, 111, 110>>, <<80, 101, 97, 114, 115, 111, 110>> }

NormInputs == AliasVariants \cup CodeCodes \cup ShortStrings \cup OtherStrings

\* One argument each, two for <<"Richmond", "Hill">> and <<"lakeshore", "WEST">>, none.
NormArgvs ==
    { <<x>> : x \in NormInputs }
    \cup { <<>>,
           << <<82, 105, 99, 104, 109, 111, 110, 100>>, <<72, 105, 108, 108>> >>,
           << <<108, 97, 107, 101, 115, 104, 111, 114, 101>>, <<87, 69, 83, 84>> >> }

\* <<>>, <<"mi">>, <<"Union">>, <<"Richmond", "Hill">>, <<"nonexistent">>,
\* <<U+00C9>>, <<U+00E9>>
MainArgvs ==
    { <<>>,
      << <<109, 105>> >>,
      << <<85, 110, 105, 111, 110>> >>,
      << <<82, 105, 99, 104, 109, 111, 110, 100>>, <<72, 105, 108, 108>> >>,
      << <<110, 111, 110, 101, 120, 105, 115, 116, 101, 110, 116>> >>,
      << <<201>> >>,
      << <<233>> >> }

(***************************************************************************)
(* The state after the process starts.                                     *)
(***************************************************************************)
NoDocument == [table |-> FALSE, rows |-> <<>>]
NoHref == [kind |-> "none", origin |-> "", segs |-> <<>>]
NoUrl == [origin |-> "", path |-> <<>>]
NoFile == [exists |-> FALSE, bytes |-> <<>>]

\* A file an earlier run left behind: "old"
StaleFile == [exists |-> TRUE, bytes |-> <<111, 108, 100>>]

InitWith(Argvs, Names, at) ==
    /\ pc = at
    /\ argv \in Argvs
    /\ raw_name = <<>>
    /\ name \in Names
    /\ index_status = 0
    /\ document = NoDocument
    /\ tr = 1
    /\ href = NoHref
    /\ url = NoUrl
    /\ temp_file = FALSE
    /\ dir_exists \in BOOLEAN
    /\ file \in { f \in {NoFile, StaleFile} : f.exists => dir_exists }
    /\ pdf_status = 0
    /\ body = <<>>
    /\ content = <<>>
    /\ err = ""
    /\ err_name = <<>>
    /\ exit_code = -1
    /\ mkdir_failed = FALSE
    /\ remove_failed = FALSE
    /\ log = <<>>

\* main starts with the arguments of the command line.
Init == InitWith(MainArgvs, {<<>>}, "start")

InitNorm == InitWith(NormArgvs, {<<>>}, "start")

findVars == <<index_status, document, tr, href, url>>
fsVars == <<temp_file, dir_exists, file, mkdir_failed, remove_failed>>
pdfVars == <<pdf_status, body, content>>
errVars == <<err, err_name, exit_code>>

(***************************************************************************)
(* main, lines 141-170.                                                    *)
(***************************************************************************)

\* lines 143-147: no argument: print the usage line and return Ok.
Usage ==
    /\ pc = "start"
    /\ Len(argv) = 0
    /\ pc' = "done"
    /\ exit_code' = 0
    /\ log' = Append(log, "usage")
    /\ UNCHANGED <<argv, raw_name, name, findVars, fsVars, pdfVars, err, err_name>>

\* lines 149-151: join the arguments and normalize the name.
Normalize ==
    /\ pc = "start"
    /\ Len(argv) > 0
    /\ raw_name' = join_args(argv)
    /\ name' = get_normalized_name(raw_name')
    /\ pc' = "fetch_index"
    /\ UNCHANGED <<argv, findVars, fsVars, pdfVars, errVars, log>>

(***************************************************************************)
(* The index page and the network.                                         *)
(***************************************************************************)

\* line 8: URL, as reqwest::Url::parse splits it.
BaseUrl ==
    [origin |-> "https://www.gotransit.com",
     path |-> <<"en", "trip-planning", "seeschedules", "full-schedules">>]

\* Url::join (line 156), on the href shapes of the model: an absolute URL
\* replaces the base, a path starting with "/" replaces the base's path, any
\* other path replaces the base path's last segment.
url_join(base, h) ==
    CASE h.kind = "abs" -> [origin |-> h.origin, path |-> h.segs]
      [] h.kind = "root" -> [origin |-> base.origin, path |-> h.segs]
      [] OTHER -> [origin |-> base.origin,
                   path |-> SubSeq(base.path, 1, Len(base.path) - 1) \o h.segs]

Strong(html) == [present |-> TRUE, html |-> html]
NoStrong == [present |-> FALSE, html |-> <<>>]
Anchor(html, h) == [present |-> TRUE, html |-> html, href |-> h]
NoAnchor == [present |-> FALSE, html |-> <<>>, href |-> NoHref]

\* The rows an index page of the model is made of: the first <strong> and
\* the first <a> of a <tr>.
RowPool ==
    { \* <strong>Milton</strong> <a href="/files/21.pdf">21</a>
      [key |-> Strong(<<77, 105, 108, 116, 111, 110>>),
       link |-> Anchor(<<50, 49>>, [kind |-> "root", origin |-> "", segs |-> <<"files", "21.pdf">>])],
      \* <strong>21</strong> <a href="21b.pdf">Download</a>
      [key |-> Strong(<<50, 49>>),
       link |-> Anchor(<<68, 111, 119, 110, 108, 111, 97, 100>>,
                       [kind |-> "rel", origin |-> "", segs |-> <<"21b.pdf">>])],
      \* <strong>UNION</strong> <a href="https://cdn.example/un.pdf">un</a>
      [key |-> Strong(<<85, 78, 73, 79, 78>>),
       link |-> Anchor(<<117, 110>>,
                       [kind |-> "abs", origin |-> "https://cdn.example", segs |-> <<"un.pdf">>])],
      \* <strong>Pearson</strong> <a>Union</a>: an anchor with no href
      [key |-> Strong(<<80, 101, 97, 114, 115, 111, 110>>),
       link |-> Anchor(<<85, 110, 105, 111, 110>>, NoHref)],
      \* <a href="/files/21.pdf">21</a>: no <strong>
      [key |-> NoStrong,
       link |-> Anchor(<<50, 49>>, [kind |-> "root", origin |-> "", segs |-> <<"files", "21.pdf">>])],
      \* <strong>union</strong>: no <a>
      [key |-> Strong(<<117, 110, 105, 111, 110>>), link |-> NoAnchor],
      \* <strong>U+00C9</strong> <a href="/files/e.pdf">x</a>
      [key |-> Strong(<<201>>),
       link |-> Anchor(<<120>>, [kind |-> "root", origin |-> "", segs |-> <<"files", "e.pdf">>])],
      \* <strong>61</strong> <a href="https://">x</a>: an href Url::join rejects
      [key |-> Strong(<<54, 49>>),
       link |-> Anchor(<<120>>, [kind |-> "bad", origin |-> "", segs |-> <<>>])] }

\* The pages with the table: up to MaxRows rows.
TablePages == { [table |-> TRUE, rows |-> r] : r \in UNION { [1..n -> RowPool] : n \in 0..MaxRows } }

\* What a 200 response may carry: a page with the table, or one without it.
IndexPages == TablePages \cup { NoDocument }

\* What an error response (404) may carry: an error page without the table,
\* or a page with the table still in it.
ErrorPages ==
    { NoDocument,
      [table |-> TRUE,
       rows |-> << [key |-> Strong(<<77, 105, 108, 116, 111, 110>>),
                    link |-> Anchor(<<50, 49>>, [kind |-> "root", origin |-> "",
                                                 segs |-> <<"files", "21.pdf">>])] >>] }

\* "%PDF", and the empty body
PdfBodies == { <<37, 80, 68, 70>>, <<>> }

\* "<h1>": the body of an error response
ErrorBody == <<60, 104, 49, 62>>

\* main returns Err(kind) while it owns no TempFile (lines 158, and the
\* Termination of main: exit status 1).
ReturnErr(kind) ==
    /\ err' = kind
    /\ exit_code' = 1
    /\ pc' = "done"

\* main returns Err(kind) while it owns the TempFile: the drop comes first.
ReturnErrOwning(kind) ==
    /\ err' = kind
    /\ pc' = "drop"
    /\ UNCHANGED exit_code

(***************************************************************************)
(* download_full_schedules_page, lines 100-103.                            *)
(***************************************************************************)

\* line 101: reqwest::get(URL).await? fails: no response at all.
IndexGetErr ==
    /\ pc = "fetch_index"
    /\ log' = Append(log, "index_get")
    /\ ReturnErr("TransportError")
    /\ UNCHANGED <<argv, raw_name, name, findVars, fsVars, pdfVars, err_name>>

\* line 101: reqwest::get(URL).await? yields a response: Ok whatever its
\* status, since nothing calls error_for_status.
IndexGetResponse ==
    /\ pc = "fetch_index"
    /\ \E s \in {200, 404} : index_status' = s
    /\ log' = Append(log, "index_get")
    /\ pc' = "index_text"
    /\ UNCHANGED <<argv, raw_name, name, document, tr, href, url, fsVars, pdfVars, errVars>>

\* line 102: resp.text().await? fails while the body is read.
IndexTextErr ==
    /\ pc = "index_text"
    /\ ReturnErr("TransportError")
    /\ UNCHANGED <<argv, raw_name, name, findVars, fsVars, pdfVars, err_name, log>>

\* lines 102, 106-107: the body arrives and is parsed as an HTML document.
IndexParse ==
    /\ pc = "index_text"
    /\ \E d \in (IF index_status = 200 THEN IndexPages ELSE ErrorPages) : document' = d
    /\ log' = Append(log, "index_parsed")
    /\ pc' = "select_tbody"
    /\ UNCHANGED <<argv, raw_name, name, index_status, tr, href, url, fsVars, pdfVars, errVars>>

(***************************************************************************)
(* find_pdf_link, lines 105-128.                                           *)
(***************************************************************************)

\* lines 108-109: no table[class='content-page-table']>tbody: ParseError.
NoTbody ==
    /\ pc = "select_tbody"
    /\ ~document.table
    /\ ReturnErr("ParseError")
    /\ UNCHANGED <<argv, raw_name, name, findVars, fsVars, pdfVars, err_name, log>>

\* lines 109-115: the tbody is there: the loop starts at its first row.
SelectTbody ==
    /\ pc = "select_tbody"
    /\ document.table
    /\ tr' = 1
    /\ pc' = "scan"
    /\ UNCHANGED <<argv, raw_name, name, index_status, document, href, url, fsVars, pdfVars,
                   errVars, log>>

\* A mutant of row_matches: the row's texts are compared as they are.
row_matches_exact(row, n) == row.key.html = n \/ row.link.html = n

\* A mutant of row_matches: only the label is compared.
row_matches_key_only(row, n) == to_ascii_lowercase(row.key.html) = n

\* lines 119-120: the row's texts are lowercased, the name is not.
row_matches(row, n) ==
    \/ to_ascii_lowercase(row.key.html) = n
    \/ to_ascii_lowercase(row.link.html) = n

\* lines 116-117
row_well_formed(row) == row.key.present /\ row.link.present

\* A mutant of RowMalformed: the malformed row is skipped.
RowMalformed_skipped ==
    /\ pc = "scan"
    /\ tr <= Len(document.rows)
    /\ ~row_well_formed(document.rows[tr])
    /\ tr' = tr + 1
    /\ UNCHANGED <<pc, argv, raw_name, name, index_status, document, href, url, fsVars,
                   pdfVars, errVars, log>>

\* lines 116-117: the row has no <strong> or no <a>: ParseError.
RowMalformed ==
    /\ pc = "scan"
    /\ tr <= Len(document.rows)
    /\ ~row_well_formed(document.rows[tr])
    /\ ReturnErr("ParseError")
    /\ UNCHANGED <<argv, raw_name, name, findVars, fsVars, pdfVars, err_name, log>>

\* lines 119-123: the row matches and its anchor has an href: return it.
RowMatch ==
    /\ pc = "scan"
    /\ tr <= Len(document.rows)
    /\ row_well_formed(document.rows[tr])
    /\ row_matches(document.rows[tr], name)
    /\ document.rows[tr].link.href.kind # "none"
    /\ href' = document.rows[tr].link.href
    /\ pc' = "found"
    /\ UNCHANGED <<argv, raw_name, name, index_status, document, tr, url, fsVars, pdfVars,
                   errVars, log>>

\* lines 119-122: the row matches and its anchor has no href: ParseError.
RowMatchNoHref ==
    /\ pc = "scan"
    /\ tr <= Len(document.rows)
    /\ row_well_formed(document.rows[tr])
    /\ row_matches(document.rows[tr], name)
    /\ document.rows[tr].link.href.kind = "none"
    /\ ReturnErr("ParseError")
    /\ UNCHANGED <<argv, raw_name, name, findVars, fsVars, pdfVars, err_name, log>>

\* lines 115-125: the row does not match: on to the next one.
RowSkip ==
    /\ pc = "scan"
    /\ tr <= Len(document.rows)
    /\ row_well_formed(document.rows[tr])
    /\ ~row_matches(document.rows[tr], name)
    /\ tr' = tr + 1
    /\ UNCHANGED <<pc, argv, raw_name, name, index_status, document, href, url, fsVars,
                   pdfVars, errVars, log>>

\* A mutant of NotFound: the error carries the name as typed.
NotFound_raw_name ==
    /\ pc = "scan"
    /\ tr > Len(document.rows)
    /\ ReturnErr("ScheduleNotFoundError")
    /\ err_name' = raw_name
    /\ UNCHANGED <<argv, raw_name, name, findVars, fsVars, pdfVars, log>>

\* line 127: the rows are exhausted: ScheduleNotFoundError { name }.
NotFound ==
    /\ pc = "scan"
    /\ tr > Len(document.rows)
    /\ ReturnErr("ScheduleNotFoundError")
    /\ err_name' = name
    /\ UNCHANGED <<argv, raw_name, name, findVars, fsVars, pdfVars, log>>

(***************************************************************************)
(* main, lines 153-160: the join.                                          *)
(***************************************************************************)

\* lines 155-156: base_url.join(&href).unwrap() panics on an href that is
\* no URL reference: the process ends with status 101.
JoinPanic ==
    /\ pc = "found"
    /\ href.kind = "bad"
    /\ err' = "panic"
    /\ exit_code' = 101
    /\ pc' = "done"
    /\ UNCHANGED <<argv, raw_name, name, findVars, fsVars, pdfVars, err_name, log>>

\* lines 153-160
Join ==
    /\ pc = "found"
    /\ href.kind # "bad"
    /\ url' = url_join(BaseUrl, href)
    /\ log' = Append(log, "located")
    /\ pc' = "tempfile"
    /\ UNCHANGED <<argv, raw_name, name, index_status, document, tr, href, fsVars, pdfVars,
                   errVars>>

(***************************************************************************)
(* TempFile, lines 34-52, and download_pdf, lines 130-139.                 *)
(***************************************************************************)

\* A mutant of TempFile_get: the path is built and create_dir_all never called.
TempFile_get_no_mkdir ==
    /\ pc = "tempfile"
    /\ temp_file' = TRUE
    /\ log' = Append(log, "acquired")
    /\ pc' = "pdf_get"
    /\ UNCHANGED <<argv, raw_name, name, findVars, dir_exists, file, mkdir_failed,
                   remove_failed, pdfVars, errVars>>

\* lines 36-43 (main line 162): create_dir_all returns Ok on a directory
\* that exists, creates a missing one, or fails; unwrap_or_default drops
\* the failure.
TempFile_get ==
    /\ pc = "tempfile"
    /\ \/ dir_exists /\ log' = Append(log, "acquired")
                     /\ UNCHANGED <<dir_exists, mkdir_failed>>
       \/ ~dir_exists /\ dir_exists' = TRUE /\ log' = log \o <<"mkdir", "acquired">>
                      /\ UNCHANGED mkdir_failed
       \/ ~dir_exists /\ mkdir_failed' = TRUE /\ log' = Append(log, "acquired")
                      /\ UNCHANGED dir_exists
    /\ temp_file' = TRUE
    /\ pc' = "pdf_get"
    /\ UNCHANGED <<argv, raw_name, name, findVars, file, remove_failed, pdfVars, errVars>>

\* line 134: reqwest::get(url).await? fails: no response at all.
PdfGetErr ==
    /\ pc = "pdf_get"
    /\ log' = Append(log, "pdf_get")
    /\ ReturnErrOwning("TransportError")
    /\ UNCHANGED <<argv, raw_name, name, findVars, fsVars, pdfVars, err_name>>

\* line 134: reqwest::get(url).await? yields a response: Ok whatever its status.
PdfGetResponse ==
    /\ pc = "pdf_get"
    /\ \E s \in {200, 404} :
          /\ pdf_status' = s
          /\ body' \in (IF s = 200 THEN PdfBodies ELSE {ErrorBody})
    /\ log' = Append(log, "pdf_get")
    /\ pc' = "create"
    /\ UNCHANGED <<argv, raw_name, name, findVars, fsVars, content, errVars>>

\* lines 44-46, 135: File::create fails: always without the directory,
\* possibly with it.
CreateErr ==
    /\ pc = "create"
    /\ ReturnErrOwning("IOError")
    /\ UNCHANGED <<argv, raw_name, name, findVars, fsVars, pdfVars, err_name, log>>

\* lines 44-46, 135: File::create makes the file, or truncates the one there.
Create ==
    /\ pc = "create"
    /\ dir_exists
    /\ file' = [exists |-> TRUE, bytes |-> <<>>]
    /\ pc' = "read_body"
    /\ UNCHANGED <<argv, raw_name, name, findVars, temp_file, dir_exists, mkdir_failed,
                   remove_failed, pdfVars, errVars, log>>

\* line 136: response.bytes().await? fails while the body is read.
ReadBodyErr ==
    /\ pc = "read_body"
    /\ ReturnErrOwning("TransportError")
    /\ UNCHANGED <<argv, raw_name, name, findVars, fsVars, pdfVars, err_name, log>>

\* line 136
ReadBody ==
    /\ pc = "read_body"
    /\ content' = body
    /\ pc' = "write"
    /\ UNCHANGED <<argv, raw_name, name, findVars, fsVars, pdf_status, body, errVars, log>>

\* line 137: write_all fails after writing some of the bytes, not all.
WriteErr ==
    /\ pc = "write"
    /\ \E k \in 0..(Len(content) - 1) :
          file' = [exists |-> TRUE, bytes |-> SubSeq(content, 1, k)]
    /\ ReturnErrOwning("IOError")
    /\ UNCHANGED <<argv, raw_name, name, findVars, temp_file, dir_exists, mkdir_failed,
                   remove_failed, pdfVars, err_name, log>>

\* A mutant of WriteAll: Ok is returned with nothing written.
WriteAll_nothing ==
    /\ pc = "write"
    /\ log' = Append(log, "downloaded")
    /\ pc' = "open"
    /\ UNCHANGED <<argv, raw_name, name, findVars, fsVars, pdfVars, errVars>>

\* lines 137-138: the bytes are written and download_pdf returns Ok.
WriteAll ==
    /\ pc = "write"
    /\ file' = [exists |-> TRUE, bytes |-> content]
    /\ log' = Append(log, "downloaded")
    /\ pc' = "open"
    /\ UNCHANGED <<argv, raw_name, name, findVars, temp_file, dir_exists, mkdir_failed,
                   remove_failed, pdfVars, errVars>>

(***************************************************************************)
(* main, lines 166-170.                                                    *)
(***************************************************************************)

\* line 166: open::that(...)? fails.
OpenErr ==
    /\ pc = "open"
    /\ log' = Append(log, "viewer")
    /\ ReturnErrOwning("IOError")
    /\ UNCHANGED <<argv, raw_name, name, findVars, fsVars, pdfVars, err_name>>

\* line 166: the viewer is started on the file.
Open ==
    /\ pc = "open"
    /\ log' = Append(log, "viewer")
    /\ pc' = "sleep"
    /\ UNCHANGED <<argv, raw_name, name, findVars, fsVars, pdfVars, errVars>>

\* line 168
Sleep ==
    /\ pc = "sleep"
    /\ log' = Append(log, "sleep")
    /\ pc' = "drop"
    /\ UNCHANGED <<argv, raw_name, name, findVars, fsVars, pdfVars, errVars>>

\* A mutant of Drop: TempFile has no Drop, the file stays.
Drop_nothing ==
    /\ pc = "drop"
    /\ temp_file' = FALSE
    /\ exit_code' = IF err = "" THEN 0 ELSE 1
    /\ pc' = "done"
    /\ UNCHANGED <<argv, raw_name, name, findVars, dir_exists, file, mkdir_failed,
                   remove_failed, pdfVars, err, err_name, log>>

\* lines 48-52, at the end of main's scope (the returns of lines 164, 166
\* and 169): remove_file removes the file, fails on a file that is there, or
\* fails because there is none; unwrap_or_default drops the failure.
Drop ==
    /\ pc = "drop"
    /\ \/ file.exists /\ file' = NoFile /\ log' = Append(log, "removed")
                      /\ UNCHANGED remove_failed
       \/ file.exists /\ remove_failed' = TRUE /\ UNCHANGED <<file, log>>
       \/ ~file.exists /\ UNCHANGED <<file, remove_failed, log>>
    /\ temp_file' = FALSE
    /\ exit_code' = IF err = "" THEN 0 ELSE 1
    /\ pc' = "done"
    /\ UNCHANGED <<argv, raw_name, name, findVars, dir_exists, mkdir_failed, pdfVars,
                   err, err_name>>

Next ==
    \/ Usage \/ Normalize
    \/ IndexGetErr \/ IndexGetResponse \/ IndexTextErr \/ IndexParse
    \/ NoTbody \/ SelectTbody
    \/ RowMalformed \/ RowMatch \/ RowMatchNoHref \/ RowSkip \/ NotFound
    \/ JoinPanic \/ Join
    \/ TempFile_get
    \/ PdfGetErr \/ PdfGetResponse \/ CreateErr \/ Create
    \/ ReadBodyErr \/ ReadBody \/ WriteErr \/ WriteAll
    \/ OpenErr \/ Open \/ Sleep \/ Drop

Spec == Init /\ [][Next]_vars

\* get_normalized_name alone, on every input of NormArgvs.
NextNorm == Usage \/ Normalize

SpecNorm == InitNorm /\ [][NextNorm]_vars

\* find_pdf_link alone, called with a name in any letter case:
\* "union", "Union", "UNION", "21", "nonexistent".
LocateNames ==
    { <<117, 110, 105, 111, 110>>, <<85, 110, 105, 111, 110>>, <<85, 78, 73, 79, 78>>,
      <<50, 49>>, <<110, 111, 110, 101, 120, 105, 115, 116, 101, 110, 116>> }

InitLocate == InitWith({<<>>}, LocateNames, "fetch_index")

NextLocate ==
    \/ IndexGetErr \/ IndexGetResponse \/ IndexTextErr \/ IndexParse
    \/ NoTbody \/ SelectTbody
    \/ RowMalformed \/ RowMatch \/ RowMatchNoHref \/ RowSkip \/ NotFound

SpecLocate == InitLocate /\ [][NextLocate]_vars

(***************************************************************************)
(* The properties.  What they are stated with: the alias table as the      *)
(* specification prints it, and letter case defined apart from the code.   *)
(***************************************************************************)

\* The specification's alias table (spec.md section 4.1), class by class.
AliasClasses ==
    {
      \* 01-18: lakeshore west, lw, 1, 01, 18
      [code |-> <<48, 49, 45, 49, 56>>,
       aliases |-> {<<108, 97, 107, 101, 115, 104, 111, 114, 101, 32, 119, 101, 115, 116>>, <<108, 119>>, <<49>>, <<48, 49>>, <<49, 56>>}],
      \* 21: milton, mi
      [code |-> <<50, 49>>,
       aliases |-> {<<109, 105, 108, 116, 111, 110>>, <<109, 105>>}],
      \* 30-31-33: kitchener, ki, 30, 31, 33
      [code |-> <<51, 48, 45, 51, 49, 45, 51, 51>>,
       aliases |-> {<<107, 105, 116, 99, 104, 101, 110, 101, 114>>, <<107, 105>>, <<51, 48>>, <<51, 49>>, <<51, 51>>}],
      \* 63-65-68: barrie, ba, 63, 65, 68
      [code |-> <<54, 51, 45, 54, 53, 45, 54, 56>>,
       aliases |-> {<<98, 97, 114, 114, 105, 101>>, <<98, 97>>, <<54, 51>>, <<54, 53>>, <<54, 56>>}],
      \* 61: richmond hill, rh
      [code |-> <<54, 49>>,
       aliases |-> {<<114, 105, 99, 104, 109, 111, 110, 100, 32, 104, 105, 108, 108>>, <<114, 104>>}],
      \* 70-71: stouffville, st, 70, 71
      [code |-> <<55, 48, 45, 55, 49>>,
       aliases |-> {<<115, 116, 111, 117, 102, 102, 118, 105, 108, 108, 101>>, <<115, 116>>, <<55, 48>>, <<55, 49>>}],
      \* 09-90: lakeshore east, le, 9, 09, 90
      [code |-> <<48, 57, 45, 57, 48>>,
       aliases |-> {<<108, 97, 107, 101, 115, 104, 111, 114, 101, 32, 101, 97, 115, 116>>, <<108, 101>>, <<57>>, <<48, 57>>, <<57, 48>>}],
      \* 41-45-47-48: 41, 45, 47, 48
      [code |-> <<52, 49, 45, 52, 53, 45, 52, 55, 45, 52, 56>>,
       aliases |-> {<<52, 49>>, <<52, 53>>, <<52, 55>>, <<52, 56>>}],
      \* 52-54-56: 52, 54, 56
      [code |-> <<53, 50, 45, 53, 52, 45, 53, 54>>,
       aliases |-> {<<53, 50>>, <<53, 52>>, <<53, 54>>}]
    }

SpecAliases == UNION { c.aliases : c \in AliasClasses }

SpecCodeOf(a) == (CHOOSE c \in AliasClasses : a \in c.aliases).code

\* The lower-case form of a character: A-Z, the upper-case letters of
\* Latin-1 (U+00C0..U+00DE but the multiplication sign U+00D7), and the
\* Kelvin sign U+212A, whose lower-case form is "k".
LowercasedChar(c) ==
    CASE c >= 65 /\ c <= 90 -> c + 32
      [] c >= 192 /\ c <= 222 /\ c # 215 -> c + 32
      [] c = 8490 -> 107
      [] OTHER -> c

Lowercased(s) == [i \in 1..Len(s) |-> LowercasedChar(s[i])]

UpperAZ == <<65, 66, 67, 68, 69, 70, 71, 72, 73, 74, 75, 76, 77, 78, 79, 80, 81, 82, 83,
             84, 85, 86, 87, 88, 89, 90>>
LowerAZ == <<97, 98, 99, 100, 101, 102, 103, 104, 105, 106, 107, 108, 109, 110, 111, 112,
             113, 114, 115, 116, 117, 118, 119, 120, 121, 122>>

\* The lower-case form of a character when only the 26 ASCII letters count
\* as letters.
AsciiLowercasedChar(c) ==
    IF \E k \in 1..26 : UpperAZ[k] = c
    THEN LowerAZ[CHOOSE k \in 1..26 : UpperAZ[k] = c]
    ELSE c

AsciiLowercased(s) == [i \in 1..Len(s) |-> AsciiLowercasedChar(s[i])]

HasAsciiUpper(s) == \E i \in 1..Len(s) : \E k \in 1..26 : UpperAZ[k] = s[i]

\* The contract of normalize, given the lowercased input lx and the output.
NormalizeContract(lx, out) ==
    IF lx \in SpecAliases THEN out = SpecCodeOf(lx) ELSE out = lx

InLog(e) == \E i \in 1..Len(log) : log[i] = e

Count(e) == Cardinality({ i \in 1..Len(log) : log[i] = e })

\* C1, as stated: get_normalized_name(x) is the canonical code of the
\* lowercased x when the lowercased x is an alias of the table, and the
\* lowercased x itself when it is not.
C1_Lowercased ==
    pc = "fetch_index" => NormalizeContract(Lowercased(raw_name), name)

\* C1, amended: the same with "lowercased" meaning ASCII-lowercased: only
\* A-Z are folded, every other character is kept as typed.
C1_AsciiLowercased ==
    pc = "fetch_index" => NormalizeContract(AsciiLowercased(raw_name), name)

\* "lakeshore WEST", typed as two arguments, is normalized to "01-18".
C1_Witness ==
    /\ pc = "fetch_index"
    /\ raw_name = <<108, 97, 107, 101, 115, 104, 111, 114, 101, 32, 87, 69, 83, 84>>
    /\ name = <<48, 49, 45, 49, 56>>

\* C2: get_normalized_name is idempotent: normalizing the name main has
\* normalized yields the same name.
C2_Idempotent ==
    pc = "fetch_index" => get_normalized_name(name) = name

\* "KI" has been normalized to "30-31-33".
C2_Witness ==
    /\ pc = "fetch_index"
    /\ raw_name = <<75, 73>>
    /\ name = <<51, 48, 45, 51, 49, 45, 51, 51>>

(***************************************************************************)
(* locate: find_pdf_link and the join of main.                             *)
(***************************************************************************)

Rows == document.rows

WellFormed(row) == row.key.present /\ row.link.present

\* A row's label or link text equals n up to ASCII letter case.
RowEquals(row, n) ==
    \/ row.key.present /\ AsciiLowercased(row.key.html) = AsciiLowercased(n)
    \/ row.link.present /\ AsciiLowercased(row.link.html) = AsciiLowercased(n)

\* A row's label or link text equals n up to letter case.
RowEqualsAnyCase(row, n) ==
    \/ row.key.present /\ Lowercased(row.key.html) = Lowercased(n)
    \/ row.link.present /\ Lowercased(row.link.html) = Lowercased(n)

\* A row matches n: its label or link text, with its ASCII letters in
\* lower case, is n.
RowMatchesName(row, n) ==
    \/ row.key.present /\ AsciiLowercased(row.key.html) = n
    \/ row.link.present /\ AsciiLowercased(row.link.html) = n

MatchingRows == { j \in 1..Len(Rows) : RowMatchesName(Rows[j], name) }

EqualRows == { j \in 1..Len(Rows) : RowEquals(Rows[j], name) }

MalformedRows == { j \in 1..Len(Rows) : ~WellFormed(Rows[j]) }

Min(S) == CHOOSE j \in S : \A k \in S : j <= k

\* The index page has been parsed and locate has returned or failed.
LocateReturned ==
    /\ InLog("index_parsed")
    /\ pc \notin {"select_tbody", "scan", "found"}

LocateFailed == err \in {"ParseError", "ScheduleNotFoundError", "panic"}

\* C3, as stated: when the table is present and some row matches, locate
\* returns the href of the first matching row joined against the index
\* page's URL, and no later row is examined.
C3_FirstMatch ==
    (LocateReturned /\ document.table /\ MatchingRows # {}) =>
        /\ ~LocateFailed
        /\ url = url_join(BaseUrl, Rows[Min(MatchingRows)].link.href)
        /\ tr = Min(MatchingRows)

\* C3, amended: the same, provided every row up to the first matching one
\* has a <strong> and an <a>, and the matching row's anchor has an href
\* that Url::join accepts; with a matching anchor that has no href locate
\* fails with ParseError, and with an href that Url::join rejects main
\* panics.
C3_FirstMatchWellFormed ==
    ( /\ LocateReturned
      /\ document.table
      /\ MatchingRows # {}
      /\ \A j \in 1..Min(MatchingRows) : WellFormed(Rows[j]) ) =>
        LET first == Min(MatchingRows)
            kind == Rows[first].link.href.kind
        IN  /\ tr = first
            /\ kind \notin {"none", "bad"} =>
                   /\ ~LocateFailed
                   /\ url = url_join(BaseUrl, Rows[first].link.href)
            /\ kind = "none" => (err = "ParseError" /\ url = NoUrl)
            /\ kind = "bad" => (err = "panic" /\ exit_code = 101 /\ url = NoUrl)

\* Two rows match "21", with different hrefs, and the first one's href,
\* "/files/21.pdf", has been joined.
C3_Witness ==
    /\ pc = "tempfile"
    /\ Len(Rows) = 2
    /\ MatchingRows = {1, 2}
    /\ Rows[1].link.href # Rows[2].link.href
    /\ url = [origin |-> "https://www.gotransit.com", path |-> <<"files", "21.pdf">>]

\* C4, as stated: a row without a <strong> or without an <a>, anywhere in
\* the table, makes locate fail with ParseError.
C4_AnyMalformedRow ==
    (LocateReturned /\ document.table /\ MalformedRows # {}) => err = "ParseError"

\* C4, amended: the first malformed row makes locate fail with ParseError
\* when no row before it matches, whatever the name; when a row before it
\* matches (and its anchor has an href), the malformed row is never
\* examined and locate does not fail with ParseError.
C4_MalformedRowReached ==
    (LocateReturned /\ document.table /\ MalformedRows # {}) =>
        LET m == Min(MalformedRows)
            before == { j \in 1..(m - 1) : RowMatchesName(Rows[j], name) }
        IN  /\ before = {} => (err = "ParseError" /\ tr = m)
            /\ (before # {} /\ Rows[Min(before)].link.href.kind # "none") =>
                   (err # "ParseError" /\ tr = Min(before))

\* The second row has no <a>, the first is well-formed and does not match:
\* ParseError at the second row.
C4_Witness ==
    /\ pc = "done"
    /\ err = "ParseError"
    /\ Len(Rows) = 2
    /\ WellFormed(Rows[1])
    /\ ~RowMatchesName(Rows[1], name)
    /\ ~Rows[2].link.present
    /\ tr = 2

\* C5: with the table present, every row well-formed and no row matching,
\* locate fails with ScheduleNotFoundError carrying the queried name, after
\* the loop has gone through every row.
C5_NotFound ==
    ( /\ LocateReturned
      /\ document.table
      /\ MalformedRows = {}
      /\ EqualRows = {} ) =>
        /\ pc = "done"
        /\ err = "ScheduleNotFoundError"
        /\ err_name = name
        /\ exit_code = 1
        /\ tr = Len(Rows) + 1

\* "Union" was typed, two rows were examined, none matched: the error
\* carries "union".
C5_Witness ==
    /\ pc = "done"
    /\ err = "ScheduleNotFoundError"
    /\ raw_name = <<85, 110, 105, 111, 110>>
    /\ err_name = <<117, 110, 105, 111, 110>>
    /\ Len(Rows) = 2
    /\ tr = 3

\* C6, as stated: a row whose label or link text equals canonical_name up
\* to letter case matches, whatever the case of either: the loop never
\* goes past such a row.
C6_AnyCase ==
    (InLog("index_parsed") /\ document.table) =>
        \A j \in 1..(tr - 1) : ~RowEqualsAnyCase(Rows[j], name)

\* C6, amended: with a canonical_name free of upper-case ASCII letters the
\* loop never goes past a row that equals it up to ASCII letter case; the
\* row returned equals it up to ASCII letter case; and a canonical_name with
\* an upper-case ASCII letter matches no row.
C6_RowTextAsciiCase ==
    (InLog("index_parsed") /\ document.table) =>
        /\ ~HasAsciiUpper(name) => \A j \in 1..(tr - 1) : ~RowEquals(Rows[j], name)
        /\ pc = "found" => (RowEquals(Rows[tr], name) /\ ~HasAsciiUpper(name))

\* The row labelled "UNION" has matched the name "union".
C6_Witness ==
    /\ pc = "found"
    /\ name = <<117, 110, 105, 111, 110>>
    /\ Rows[tr].key.html = <<85, 78, 73, 79, 78>>

(***************************************************************************)
(* The pipeline of main: the fetches, the temporary file, the viewer.      *)
(***************************************************************************)

\* The place of the first e in the log.
Pos(e) == Min({ i \in 1..Len(log) : log[i] = e })

IsPipelineStep(e) == e \in {"index_get", "index_parsed", "located", "pdf_get", "downloaded"}

\* The pipeline steps logged before the viewer was started.
StepsBeforeViewer == SelectSeq(SubSeq(log, 1, Pos("viewer") - 1), IsPipelineStep)

\* C7: a failed fetch, a response with a non-success status included, is a
\* TransportError: the run ends with a non-zero exit, nothing is fetched
\* twice, the body is neither parsed as the index nor written as the
\* schedule, and the viewer is not started.
C7_TransportError ==
    /\ Count("index_get") <= 1
    /\ Count("pdf_get") <= 1
    /\ err = "TransportError" => (~InLog("viewer") /\ (pc = "done" => exit_code = 1))
    /\ index_status \notin {0, 200} =>
           /\ ~InLog("index_parsed")
           /\ ~InLog("viewer")
           /\ pc = "done" => (err = "TransportError" /\ exit_code = 1)
    /\ pdf_status \notin {0, 200} =>
           /\ ~InLog("downloaded")
           /\ ~InLog("viewer")
           /\ pc = "done" => (err = "TransportError" /\ exit_code = 1)

\* C8: once a TempFile has been acquired, when main has ended no file is
\* left at its path, unless remove_file itself failed on it.
C8_FileRemoved ==
    (pc = "done" /\ InLog("acquired") /\ ~remove_failed) =>
        (~file.exists /\ ~temp_file)

\* The write failed after File::create had made the file: main has ended
\* with the IOError and the file is gone.
C8_Witness ==
    /\ pc = "done"
    /\ err = "IOError"
    /\ InLog("acquired")
    /\ InLog("removed")
    /\ ~InLog("downloaded")
    /\ content # <<>>
    /\ ~file.exists

\* C9, as stated: whenever the path is used (File::create is about to open
\* it, it is open for writing, or the viewer is given it) the subdirectory
\* exists, also when create_dir_all failed.
C9_DirExists ==
    pc \in {"create", "read_body", "write", "open", "sleep"} => dir_exists

\* C9, amended: the subdirectory exists whenever the file is open for
\* writing or given to the viewer, and whenever File::create is about to
\* open the path unless create_dir_all failed; after such a failure
\* File::create is still called on the path and fails, so that nothing is
\* written and the viewer is not started.
C9_DirExistsUnlessMkdirFailed ==
    /\ pc \in {"read_body", "write", "open", "sleep"} => dir_exists
    /\ (pc = "create" /\ ~mkdir_failed) => dir_exists
    /\ mkdir_failed =>
           /\ ~dir_exists
           /\ ~file.exists
           /\ ~InLog("viewer")
           /\ pc = "done" => err \in {"TransportError", "IOError"}

\* TempFile::get has created the subdirectory and File::create is about
\* to open the path.
C9_Witness ==
    /\ pc = "create"
    /\ InLog("mkdir")
    /\ dir_exists
    /\ ~mkdir_failed

=============================================================================
